---- MODULE Spec2Model ----
(***************************************************************************)
(* The vehicle-request approval workflow of the DocStream API: the         *)
(* handlers of controllers/vehicleRequestController.js behind the guards   *)
(* of routes/vehicleRequest.routes.js and middleware/auth.js.              *)
(*                                                                         *)
(* Spec runs the commands one after another: every action is one whole    *)
(* HTTP command, from the route guard to the response. SpecSteps runs the  *)
(* handlers side by side: every action is the part of a handler between    *)
(* two awaits (the load, each save, the log entry).                        *)
(* SpecSerial takes the same steps with one command at a time.             *)
(* SpecPair takes them on two stored requests. SpecUsers adds protect and  *)
(* the deactivation of users, SpecRelief the relieving-officer handlers of *)
(* controllers/userController.js, SpecFacility the handlers of             *)
(* controllers/facilityController.js.                                      *)
(*                                                                         *)
(* models/VehicleRequest.js (the schema with its defaults and the methods  *)
(* moveToNextStage and areAllApprovalsComplete) is not among the source    *)
(* files; NewRequest, stagesFor, firstPendingStage, moveToNextStage and    *)
(* areAllApprovalsComplete follow the written specification instead.       *)
(***************************************************************************)
EXTENDS Integers, Sequences, FiniteSets, TLC

(* ------------------------------ bounds --------------------------------- *)

\* Requests that are ever created.
MaxRequests == 1

\* The clock stops here: every command that stores something reads the clock
\* once (new Date(), createdAt) and the clock then moves on.
MaxTime == 6

\* Handlers that run side by side in SpecSteps.
MaxInflight == 2

\* Handlers that start in SpecSteps; each start moves the clock.
MaxCommands == 4

\* The facilities that are ever created.
MaxFacilities == 1

(* ------------------------------ values --------------------------------- *)

\* A Date field that was never written.
NoTime == 0

\* An ObjectId reference that was never written.
NoUser == "none"

\* userSchema: role, and isActingAs with its role ("" when the user acts in
\* no role), startDate and endDate. The delegation of rom ends while the
\* clock still runs.
Users ==
  [ staff |-> [role |-> "Staff",                isActingAs |-> "",
               startDate |-> NoTime, endDate |-> NoTime],
    sup   |-> [role |-> "Supervisor",           isActingAs |-> "",
               startDate |-> NoTime, endDate |-> NoTime],
    rom   |-> [role |-> "Staff",                isActingAs |-> "ROM Supervisor",
               startDate |-> 1, endDate |-> 2],
    corp  |-> [role |-> "Corporate Services",   isActingAs |-> "",
               startDate |-> NoTime, endDate |-> NoTime],
    rc    |-> [role |-> "Regional Coordinator", isActingAs |-> "",
               startDate |-> NoTime, endDate |-> NoTime],
    vo    |-> [role |-> "Vehicle Officer",      isActingAs |-> "",
               startDate |-> NoTime, endDate |-> NoTime] ]

UserIds == DOMAIN Users

\* The administrator of SpecUsers, who sends no vehicle-request command.
Admins ==
  [ admin |-> [role |-> "ICT Admin", isActingAs |-> "",
               startDate |-> NoTime, endDate |-> NoTime] ]

AllUsers == Users @@ Admins

\* req.user.isActingAs?.role || req.user.role
userRole(u) ==
  IF AllUsers[u].isActingAs # "" THEN AllUsers[u].isActingAs ELSE AllUsers[u].role

\* middleware/auth.js authorize(...roles): whether the request goes on.
authorize(roles, u) == userRole(u) \in roles

\* routes/vehicleRequest.routes.js: the roles each route lets through.
ApproveRoles ==
  {"Supervisor", "ROM Supervisor", "Corporate Services",
   "Regional Coordinator", "Vehicle Officer"}

\* DeclineRoles with the requesters let through.
DeclineRolesWithStaff ==
  {"Staff", "Supervisor", "ROM Supervisor", "Corporate Services",
   "Regional Coordinator", "Vehicle Officer"}

DeclineRoles ==
  {"Supervisor", "ROM Supervisor", "Corporate Services",
   "Regional Coordinator", "Vehicle Officer"}

\* AssignRoles with the supervisors let through.
AssignRolesWithSupervisors == {"Vehicle Officer", "Supervisor", "ROM Supervisor"}

AssignRoles == {"Vehicle Officer"}

\* The inputs of the commands: who submits, who tries to decline and who
\* tries to assign (every user tries to approve).
Requesters == {"staff"}
DeclineActors == {"staff", "sup", "vo"}
AssignActors == {"sup", "vo"}

Destinations == {"within_town", "out_of_town", ""}
Comments == {"ok"}
Reasons == {"no vehicles", ""}
Drivers == {"driver1"}

(* ------------------------- the request document ------------------------ *)

ApprovalFields == {"supervisor", "corporate", "regionalCoordinator", "vehicleOfficer"}

PendingApproval ==
  [status |-> "pending", approvedBy |-> NoUser, approvedAt |-> NoTime, comments |-> ""]

NoDecline == [user |-> NoUser, role |-> "", reason |-> "", declinedAt |-> NoTime]

NoAssignment ==
  [driverName |-> "", dispatchTime |-> NoTime, urgentDispatch |-> FALSE, alertSent |-> FALSE]

\* No document: what findById finds for an unknown id.
NoDoc == [missing |-> TRUE]

\* The ordered stages of a routing attribute.
stagesFor(approvalFlow) ==
  IF approvalFlow = "within_town"
  THEN <<"supervisor", "vehicle_officer">>
  ELSE <<"supervisor", "corporate", "regional_coordinator", "vehicle_officer">>

\* The marker of currentApprovalStage once no stage is left.
Completed == "completed"

\* The approvals field that holds a stage's record.
fieldOf(stage) ==
  CASE stage = "supervisor"           -> "supervisor"
    [] stage = "corporate"            -> "corporate"
    [] stage = "regional_coordinator" -> "regionalCoordinator"
    [] stage = "vehicle_officer"      -> "vehicleOfficer"

\* The positions of the request's sequence whose record is not approved.
pendingIndexes(request) ==
  LET seq == stagesFor(request.approvalFlow)
  IN {i \in 1..Len(seq) : request.approvals[fieldOf(seq[i])].status # "approved"}

Min(S) == CHOOSE x \in S : \A y \in S : x <= y

\* The first stage of the sequence whose record is not approved, or Completed.
firstPendingStage(request) ==
  IF pendingIndexes(request) = {}
  THEN Completed
  ELSE stagesFor(request.approvalFlow)[Min(pendingIndexes(request))]

\* request.areAllApprovalsComplete()
areAllApprovalsComplete(request) == pendingIndexes(request) = {}

\* request.moveToNextStage()
moveToNextStage(request) ==
  IF areAllApprovalsComplete(request)
  THEN [request EXCEPT !.currentApprovalStage = Completed, !.overallStatus = "approved"]
  ELSE [request EXCEPT !.currentApprovalStage = firstPendingStage(request)]

\* NewRequest with the first stage skipped.
NewRequestAtSecondStage(u, destination, t) ==
  [ requestingOfficer    |-> u,
    createdAt            |-> t,
    approvalFlow         |-> destination,
    currentApprovalStage |-> stagesFor(destination)[2],
    overallStatus        |-> "pending",
    approvals            |-> [f \in ApprovalFields |-> PendingApproval],
    declinedBy           |-> NoDecline,
    vehicleAssignment    |-> NoAssignment,
    notifications        |-> <<>> ]

\* The document VehicleRequest.create stores.
NewRequest(u, destination, t) ==
  [ requestingOfficer    |-> u,
    createdAt            |-> t,
    approvalFlow         |-> destination,
    currentApprovalStage |-> stagesFor(destination)[1],
    overallStatus        |-> "pending",
    approvals            |-> [f \in ApprovalFields |-> PendingApproval],
    declinedBy           |-> NoDecline,
    vehicleAssignment    |-> NoAssignment,
    notifications        |-> <<>> ]

\* userSchema.relievingOfficer of a user who has asked for nobody: no officer,
\* the default status, no approval entry, no decline record.
NoRelief ==
  [officer |-> NoUser, status |-> "pending", approvedBy |-> <<>>, declinedBy |-> NoUser]

\* A facility that is not, or no longer, in the collection.
NoFacility == [missing |-> TRUE]

(* ------------------------------- state --------------------------------- *)

VARIABLES
  db,    \* the VehicleRequest collection: db[id] is the stored document
  logs,  \* the ActivityLog collection, in the order of creation
  now,   \* the clock
  last,  \* the last command: who asked what of which request, the response
         \* code, the document and the number of log entries before it, and
         \* the reason the decline handler has read from the body
  handlers,  \* SpecSteps: handlers[s] is the handler that runs in slot s
  inactive,  \* SpecUsers: the users whose isActive is false
  relieving, \* SpecRelief: relieving[u] is the relievingOfficer of user u
  facilities \* SpecFacility: the Facility collection, facilities[id] the stored
             \* document or NoFacility once it is deleted

vars == <<db, logs, now, last, handlers, inactive, relieving, facilities>>

Slots == 1..MaxInflight

\* A slot in which no handler has run yet.
Idle ==
  [op |-> "none", user |-> NoUser, id |-> 0, arg |-> "", pc |-> "idle", code |-> 0,
   request |-> NoDoc, synced |-> NoDoc, base |-> NoDoc,
   saves |-> 0, stale |-> FALSE, saveFailed |-> FALSE, logFailed |-> FALSE]

Init ==
  /\ db = <<>>
  /\ logs = <<>>
  /\ now = 1
  /\ last = [op |-> "none", user |-> NoUser, id |-> 0, code |-> 0, pre |-> NoDoc,
             logsBefore |-> 0, reason |-> ""]
  /\ handlers = <<>>
  /\ inactive = {}
  /\ relieving = <<>>
  /\ facilities = <<>>

\* VehicleRequest.findById(id)
findById(id) == IF id \in DOMAIN db THEN db[id] ELSE NoDoc

Response(op, u, id, code) ==
  [op |-> op, user |-> u, id |-> id, code |-> code, pre |-> findById(id),
   logsBefore |-> Len(logs), reason |-> ""]

\* A command that ends in an error response: nothing is stored.
Reject(op, u, id, code) ==
  /\ last' = Response(op, u, id, code)
  /\ UNCHANGED <<db, logs, now, handlers, inactive, relieving, facilities>>

ActivityLog(u, role, action, id) ==
  [user |-> u, role |-> role, action |-> action, resourceId |-> id]

(* ------------------------------ commands ------------------------------- *)

\* POST /api/vehicle-requests
createVehicleRequest(u, destination) ==
  IF destination = ""
  THEN Reject("create", u, 0, 500)
  ELSE /\ Len(db) < MaxRequests
       /\ now < MaxTime
       /\ db' = Append(db, NewRequest(u, destination, now))
       /\ logs' = Append(logs, ActivityLog(u, Users[u].role, "created_vehicle_request", Len(db) + 1))
       /\ last' = Response("create", u, Len(db) + 1, 201)
       /\ now' = now + 1
       /\ UNCHANGED <<handlers, inactive, relieving, facilities>>

\* GET /api/vehicle-requests without the additional filters: whether the
\* role-based query matches a stored document.
queryMatches(u, request) ==
  LET role == userRole(u)
  IN IF role \in {"Staff", "Uploader"}
     THEN request.requestingOfficer = u
     ELSE IF role \in {"Supervisor", "ROM Supervisor"}
     THEN \/ request.approvals["supervisor"].status = "pending"
          \/ request.requestingOfficer = u
     ELSE IF role = "Corporate Services"
     THEN \/ /\ request.approvals["corporate"].status = "pending"
             /\ request.approvalFlow = "within_town"
          \/ request.requestingOfficer = u
     ELSE IF role = "Regional Coordinator"
     THEN request.approvalFlow = "out_of_town"
     ELSE IF role = "Vehicle Officer"
     THEN \/ request.approvals["vehicleOfficer"].status = "pending"
          \/ request.overallStatus = "approved"
     ELSE TRUE

\* The ids of the requests the listing returns to u.
getVehicleRequests(u) == {id \in DOMAIN db : queryMatches(u, db[id])}

\* approvalFieldFor with the stage conditions lost: the role alone decides.
approvalFieldByRoleOnly(currentApprovalStage, role) ==
  IF role \in {"Supervisor", "ROM Supervisor"} THEN "supervisor"
  ELSE IF role = "Corporate Services" THEN "corporate"
  ELSE IF role = "Regional Coordinator" THEN "regionalCoordinator"
  ELSE IF role = "Vehicle Officer" THEN "vehicleOfficer"
  ELSE "none"

\* approvalFieldFor with the supervisor stage open to Corporate Services too.
approvalFieldCorporateFirst(currentApprovalStage, role) ==
  IF currentApprovalStage = "supervisor"
     /\ role \in {"Supervisor", "ROM Supervisor", "Corporate Services"}
  THEN "supervisor"
  ELSE IF currentApprovalStage = "corporate" /\ role = "Corporate Services"
  THEN "corporate"
  ELSE IF currentApprovalStage = "regional_coordinator" /\ role = "Regional Coordinator"
  THEN "regionalCoordinator"
  ELSE IF currentApprovalStage = "vehicle_officer" /\ role = "Vehicle Officer"
  THEN "vehicleOfficer"
  ELSE "none"

\* Which approvals field the actor's role may write at the current stage
\* ("none": 403, no permission at this stage).
approvalFieldFor(currentApprovalStage, role) ==
  IF currentApprovalStage = "supervisor" /\ role \in {"Supervisor", "ROM Supervisor"}
  THEN "supervisor"
  ELSE IF currentApprovalStage = "corporate" /\ role = "Corporate Services"
  THEN "corporate"
  ELSE IF currentApprovalStage = "regional_coordinator" /\ role = "Regional Coordinator"
  THEN "regionalCoordinator"
  ELSE IF currentApprovalStage = "vehicle_officer" /\ role = "Vehicle Officer"
  THEN "vehicleOfficer"
  ELSE "none"

\* approveUpdate without the call of moveToNextStage.
approveUpdateNoMove(request, approvalField, u, t, comments) ==
  [request EXCEPT !.approvals[approvalField] =
     [status |-> "approved", approvedBy |-> u, approvedAt |-> t, comments |-> comments]]

\* approveUpdate that also routes the request within town.
approveUpdateReroutes(request, approvalField, u, t, comments) ==
  moveToNextStage(
    [request EXCEPT
       !.approvalFlow = "within_town",
       !.approvals[approvalField] =
          [status |-> "approved", approvedBy |-> u, approvedAt |-> t, comments |-> comments]])

\* "Update approval" and "Move to next stage".
approveUpdate(request, approvalField, u, t, comments) ==
  moveToNextStage(
    [request EXCEPT !.approvals[approvalField] =
       [status |-> "approved", approvedBy |-> u, approvedAt |-> t, comments |-> comments]])

\* Notification with no recipient.
NotificationToNobody(request, message, type, detail) ==
  [recipient |-> NoUser, message |-> message, type |-> type, detail |-> detail]

\* request.notifications.push({recipient, message, type}); the message is kept
\* as its template and the values it is filled with.
Notification(request, message, type, detail) ==
  [recipient |-> request.requestingOfficer, message |-> message, type |-> type, detail |-> detail]

\* approveNotify that keeps only the newest notification.
approveNotifyReplaces(request, u) ==
  [request EXCEPT !.notifications =
     <<Notification(request, "has been approved by", "approved", u)>>]

approveNotify(request, u) ==
  [request EXCEPT !.notifications =
     Append(@, Notification(request, "has been approved by", "approved", u))]

\* PUT /api/vehicle-requests/:id/approve
approveVehicleRequest(u, id, comments) ==
  IF ~authorize(ApproveRoles, u) THEN Reject("approve", u, id, 403)
  ELSE IF findById(id) = NoDoc THEN Reject("approve", u, id, 404)
  ELSE IF approvalFieldFor(db[id].currentApprovalStage, userRole(u)) = "none"
  THEN Reject("approve", u, id, 403)
  ELSE LET approvalField == approvalFieldFor(db[id].currentApprovalStage, userRole(u))
       IN /\ now < MaxTime
          /\ db' = [db EXCEPT ![id] =
                      approveNotify(approveUpdate(@, approvalField, u, now, comments), u)]
          /\ logs' = Append(logs, ActivityLog(u, userRole(u), "approved_vehicle_request", id))
          /\ now' = now + 1
          /\ last' = Response("approve", u, id, 200)
          /\ UNCHANGED <<handlers, inactive, relieving, facilities>>

\* A decline that the handler itself ends in an error response: the handler
\* has read the reason from the body.
RejectDecline(u, id, code, reason) ==
  /\ last' = [Response("decline", u, id, code) EXCEPT !.reason = reason]
  /\ UNCHANGED <<db, logs, now, handlers, inactive, relieving, facilities>>

\* reasonMissing with the check dropped.
reasonMissingNever(reason) == FALSE

\* if (!reason): the decline answers 400, "Please provide a reason".
reasonMissing(reason) == reason = ""

\* declineUpdate that also closes the approval flow.
declineUpdateClosesFlow(request, u, t, reason) ==
  [request EXCEPT
     !.overallStatus = "declined",
     !.currentApprovalStage = Completed,
     !.declinedBy = [user |-> u, role |-> userRole(u), reason |-> reason, declinedAt |-> t]]

\* "Update status": the decline record and overallStatus.
declineUpdate(request, u, t, reason) ==
  [request EXCEPT
     !.overallStatus = "declined",
     !.declinedBy = [user |-> u, role |-> userRole(u), reason |-> reason, declinedAt |-> t]]

declineNotify(request, reason) ==
  [request EXCEPT !.notifications =
     Append(@, Notification(request, "has been declined. Reason:", "declined", reason))]

\* PUT /api/vehicle-requests/:id/decline
declineVehicleRequest(u, id, reason) ==
  IF ~authorize(DeclineRoles, u) THEN Reject("decline", u, id, 403)
  ELSE IF reasonMissing(reason) THEN RejectDecline(u, id, 400, reason)
  ELSE IF findById(id) = NoDoc THEN RejectDecline(u, id, 404, reason)
  ELSE /\ now < MaxTime
       /\ db' = [db EXCEPT ![id] = declineNotify(declineUpdate(@, u, now, reason), reason)]
       /\ logs' = Append(logs, ActivityLog(u, userRole(u), "declined_vehicle_request", id))
       /\ now' = now + 1
       /\ last' = [Response("decline", u, id, 200) EXCEPT !.reason = reason]
       /\ UNCHANGED <<handlers, inactive, relieving, facilities>>

\* assignRefused with the check dropped.
assignRefusedNever(request) == FALSE

\* assignRefused with every request refused.
assignRefusedAlways(request) == TRUE

\* Whether assignVehicle answers 400, "Request must be fully approved".
assignRefused(request) == ~areAllApprovalsComplete(request)

\* "Assign vehicle": the assignment record, overallStatus and the urgent alert.
assignUpdate(request, t, driverName, urgentDispatch) ==
  [request EXCEPT
     !.vehicleAssignment =
        [driverName |-> driverName, dispatchTime |-> t,
         urgentDispatch |-> urgentDispatch, alertSent |-> urgentDispatch],
     !.overallStatus = "dispatched",
     !.notifications =
        IF urgentDispatch
        THEN Append(@, Notification(request, "URGENT: Your vehicle is on its way! Driver:",
                                    "dispatched", driverName))
        ELSE @]

\* PUT /api/vehicle-requests/:id/assign
assignVehicle(u, id, driverName, urgentDispatch) ==
  IF ~authorize(AssignRoles, u) THEN Reject("assign", u, id, 403)
  ELSE IF findById(id) = NoDoc THEN Reject("assign", u, id, 404)
  ELSE IF assignRefused(db[id]) THEN Reject("assign", u, id, 400)
  ELSE /\ now < MaxTime
       /\ db' = [db EXCEPT ![id] = assignUpdate(@, now, driverName, urgentDispatch)]
       /\ logs' = Append(logs, ActivityLog(u, Users[u].role, "dispatched_vehicle", id))
       /\ now' = now + 1
       /\ last' = Response("assign", u, id, 200)
       /\ UNCHANGED <<handlers, inactive, relieving, facilities>>

RequestIds == 1..MaxRequests

Next ==
  \/ \E u \in Requesters, d \in Destinations : createVehicleRequest(u, d)
  \/ \E u \in UserIds, id \in RequestIds, c \in Comments : approveVehicleRequest(u, id, c)
  \/ \E u \in DeclineActors, id \in RequestIds, r \in Reasons : declineVehicleRequest(u, id, r)
  \/ \E u \in AssignActors, id \in RequestIds, d \in Drivers, urgent \in BOOLEAN :
       assignVehicle(u, id, d, urgent)

Spec == Init /\ [][Next]_vars

(* ------------------------ the handlers, step by step ------------------- *)

\* The inputs of the handlers that run side by side.
StepApprovers == {"sup", "vo"}
StepDecliners == {"sup"}
StepAssigners == {"vo"}
StepDestinations == {"within_town"}
StepReasons == {"no vehicles"}

\* A slot is free before its first handler and after a handler's response.
Free(s) == handlers[s].pc \in {"idle", "done"}

\* A new handler takes the lowest free slot.
NextSlot == Min({s \in Slots : Free(s)})

\* The handler has answered with the code: its document in memory is gone,
\* the rest of what it holds stays for inspection.
Respond(h, code) ==
  [h EXCEPT !.pc = "done", !.code = code, !.request = NoDoc, !.synced = NoDoc]

\* The handler of the command, before it has loaded or stored anything.
Handler(op, u, id, arg) ==
  [Idle EXCEPT !.op = op, !.user = u, !.id = id, !.arg = arg, !.pc = "start"]

\* The handler has loaded the document and changed it in memory; the first
\* request.save() is next.
Loaded(op, u, id, arg, request) ==
  [Handler(op, u, id, arg) EXCEPT
     !.pc = "save", !.request = request, !.synced = db[id], !.base = db[id]]

\* A handler starts in the next slot and runs to its first save or response.
Start(h) ==
  /\ \E s \in Slots : Free(s)
  /\ now <= MaxCommands
  /\ handlers' = [handlers EXCEPT ![NextSlot] = h]
  /\ now' = now + 1

\* request.save() as Mongoose sends it: the paths modified in memory since the
\* document was loaded or last saved are written over the stored document, and
\* pushed array elements are appended to the stored array.
save(request, synced, stored) ==
  [stored EXCEPT
     !.currentApprovalStage =
        IF request.currentApprovalStage # synced.currentApprovalStage
        THEN request.currentApprovalStage ELSE @,
     !.overallStatus =
        IF request.overallStatus # synced.overallStatus THEN request.overallStatus ELSE @,
     !.approvals =
        [f \in ApprovalFields |->
           IF request.approvals[f] # synced.approvals[f] THEN request.approvals[f] ELSE @[f]],
     !.declinedBy =
        IF request.declinedBy # synced.declinedBy THEN request.declinedBy ELSE @,
     !.vehicleAssignment =
        IF request.vehicleAssignment # synced.vehicleAssignment
        THEN request.vehicleAssignment ELSE @,
     !.notifications =
        @ \o SubSeq(request.notifications,
                    Len(synced.notifications) + 1, Len(request.notifications))]

\* createLogThrows with the catch of createLog removed.
createLogRethrows(ok) == ~ok

\* ActivityLog.createLog: whether a failure (ok = FALSE) of log.save() reaches
\* the caller. The catch logs to the console and returns null.
createLogThrows(ok) == FALSE

\* POST /api/vehicle-requests up to the end of VehicleRequest.create, which
\* fails on validation (no destination) or in the database (ok = FALSE).
startCreate(u, destination, ok) ==
  /\ IF destination = "" \/ ~ok
     THEN /\ Start([Respond(Handler("create", u, 0, destination), 500)
                      EXCEPT !.saveFailed = TRUE])
          /\ UNCHANGED db
     ELSE /\ Len(db) < MaxRequests
          /\ db' = Append(db, NewRequest(u, destination, now))
          /\ Start([Handler("create", u, Len(db) + 1, destination)
                      EXCEPT !.pc = "log", !.saves = 1])
  /\ UNCHANGED <<logs, last, inactive, relieving, facilities>>

\* PUT /:id/approve from the route guard to the first request.save().
startApprove(u, id, comments) ==
  /\ Start(
       IF ~authorize(ApproveRoles, u)
       THEN Respond(Handler("approve", u, id, u), 403)
       ELSE IF findById(id) = NoDoc
       THEN Respond(Handler("approve", u, id, u), 404)
       ELSE IF approvalFieldFor(db[id].currentApprovalStage, userRole(u)) = "none"
       THEN Respond(Handler("approve", u, id, u), 403)
       ELSE Loaded("approve", u, id, u,
                   approveUpdate(db[id],
                                 approvalFieldFor(db[id].currentApprovalStage, userRole(u)),
                                 u, now, comments)))
  /\ UNCHANGED <<db, logs, last, inactive, relieving, facilities>>

\* PUT /:id/decline from the route guard to the first request.save().
startDecline(u, id, reason) ==
  /\ Start(
       IF ~authorize(DeclineRoles, u)
       THEN Respond(Handler("decline", u, id, reason), 403)
       ELSE IF reasonMissing(reason)
       THEN Respond(Handler("decline", u, id, reason), 400)
       ELSE IF findById(id) = NoDoc
       THEN Respond(Handler("decline", u, id, reason), 404)
       ELSE Loaded("decline", u, id, reason, declineUpdate(db[id], u, now, reason)))
  /\ UNCHANGED <<db, logs, last, inactive, relieving, facilities>>

\* PUT /:id/assign from the route guard to request.save().
startAssign(u, id, driverName, urgentDispatch) ==
  /\ Start(
       IF ~authorize(AssignRoles, u)
       THEN Respond(Handler("assign", u, id, driverName), 403)
       ELSE IF findById(id) = NoDoc
       THEN Respond(Handler("assign", u, id, driverName), 404)
       ELSE IF assignRefused(db[id])
       THEN Respond(Handler("assign", u, id, driverName), 400)
       ELSE Loaded("assign", u, id, driverName,
                   assignUpdate(db[id], now, driverName, urgentDispatch)))
  /\ UNCHANGED <<db, logs, last, inactive, relieving, facilities>>

\* requestSave that writes the handler's document over every stored request.
requestSaveEvery(s, ok, next) ==
  LET h == handlers[s]
  IN /\ IF ok
        THEN /\ db' = [id \in DOMAIN db |-> save(h.request, h.synced, db[id])]
             /\ handlers' = [handlers EXCEPT ![s] =
                  [next EXCEPT !.synced = h.request, !.saves = @ + 1]]
        ELSE /\ handlers' = [handlers EXCEPT ![s] =
                  [Respond(h, 500) EXCEPT !.saveFailed = TRUE]]
             /\ UNCHANGED db
     /\ UNCHANGED <<logs, now, last, inactive, relieving, facilities>>

\* await request.save(): the document is written, or the save throws
\* (ok = FALSE) and the catch answers 500. next is the handler's place after a
\* save that went through.
requestSave(s, ok, next) ==
  LET h == handlers[s]
  IN /\ IF ok
        THEN /\ db' = [db EXCEPT ![h.id] = save(h.request, h.synced, @)]
             /\ handlers' = [handlers EXCEPT ![s] =
                  [next EXCEPT !.synced = h.request,
                               !.saves = @ + 1,
                               !.stale = @ \/ db[h.id] # h.synced]]
        ELSE /\ handlers' = [handlers EXCEPT ![s] =
                  [Respond(h, 500) EXCEPT !.saveFailed = TRUE]]
             /\ UNCHANGED db
     /\ UNCHANGED <<logs, now, last, inactive, relieving, facilities>>

\* saveChange with the failure of the save swallowed: the handler goes on to
\* its log entry as if the document had been stored.
saveChangeSwallowed(s, ok) ==
  /\ handlers[s].pc = "save"
  /\ IF ok
     THEN requestSave(s, TRUE, [handlers[s] EXCEPT !.pc = "log"])
     ELSE /\ handlers' = [handlers EXCEPT ![s] =
               [handlers[s] EXCEPT !.pc = "log", !.saveFailed = TRUE]]
          /\ UNCHANGED <<db, logs, now, last, inactive, relieving, facilities>>

\* The first save of approve and decline and the only save of assign.
saveChange(s, ok) ==
  /\ handlers[s].pc = "save"
  /\ requestSave(s, ok, [handlers[s] EXCEPT !.pc = "log"])

\* The role a handler's log entry carries.
logRole(h) == IF h.op \in {"create", "assign"} THEN Users[h.user].role ELSE userRole(h.user)

logAction(h) ==
  CASE h.op = "create"  -> "created_vehicle_request"
    [] h.op = "approve" -> "approved_vehicle_request"
    [] h.op = "decline" -> "declined_vehicle_request"
    [] h.op = "assign"  -> "dispatched_vehicle"

\* The handler after createLog has returned: create and assign answer; approve
\* and decline push the notification and go on to the second save.
afterLog(h) ==
  CASE h.op = "create"  -> Respond(h, 201)
    [] h.op = "assign"  -> Respond(h, 200)
    [] h.op = "approve" -> [h EXCEPT !.pc = "notify", !.request = approveNotify(@, h.user)]
    [] h.op = "decline" -> [h EXCEPT !.pc = "notify", !.request = declineNotify(@, h.arg)]

\* await ActivityLog.createLog(...): the entry is stored, or storing it fails
\* (ok = FALSE).
createLog(s, ok) ==
  LET h == [handlers[s] EXCEPT !.logFailed = ~ok]
  IN /\ handlers[s].pc = "log"
     /\ logs' = IF ok THEN Append(logs, ActivityLog(h.user, logRole(h), logAction(h), h.id))
                ELSE logs
     /\ handlers' = [handlers EXCEPT ![s] =
          IF createLogThrows(ok) THEN Respond(h, 500) ELSE afterLog(h)]
     /\ UNCHANGED <<db, now, last, inactive, relieving, facilities>>

\* The second save of approve and decline, with the pushed notification, and
\* the response.
saveNotification(s, ok) ==
  /\ handlers[s].pc = "notify"
  /\ requestSave(s, ok, Respond(handlers[s], 200))

\* The database as in Init, and every slot idle.
InitSteps ==
  /\ db = <<>>
  /\ logs = <<>>
  /\ now = 1
  /\ last = [op |-> "none", user |-> NoUser, id |-> 0, code |-> 0, pre |-> NoDoc,
             logsBefore |-> 0, reason |-> ""]
  /\ handlers = [s \in Slots |-> Idle]
  /\ inactive = {}
  /\ relieving = <<>>
  /\ facilities = <<>>

\* A command arrives.
StartSteps ==
  \/ \E u \in Requesters, d \in StepDestinations, ok \in BOOLEAN : startCreate(u, d, ok)
  \/ \E u \in StepApprovers, id \in RequestIds, c \in Comments : startApprove(u, id, c)
  \/ \E u \in StepDecliners, id \in RequestIds, r \in StepReasons : startDecline(u, id, r)
  \/ \E u \in StepAssigners, id \in RequestIds, d \in Drivers, urgent \in BOOLEAN :
       startAssign(u, id, d, urgent)

\* A handler goes on from an await.
RunSteps ==
  \/ \E s \in Slots, ok \in BOOLEAN : saveChange(s, ok)
  \/ \E s \in Slots, ok \in BOOLEAN : createLog(s, ok)
  \/ \E s \in Slots, ok \in BOOLEAN : saveNotification(s, ok)

NextSteps == StartSteps \/ RunSteps

SpecSteps == InitSteps /\ [][NextSteps]_vars

\* No handler is between its start and its response.
Quiet == \A s \in Slots : Free(s)

\* The handlers step by step, but one command at a time: a command arrives
\* when the one before it has been answered.
NextSerial ==
  \/ \E u \in Requesters, d \in StepDestinations, ok \in BOOLEAN :
       Quiet /\ startCreate(u, d, ok)
  \/ \E u \in StepApprovers, id \in RequestIds, c \in Comments :
       Quiet /\ startApprove(u, id, c)
  \/ \E u \in StepDecliners, id \in RequestIds, r \in StepReasons :
       Quiet /\ startDecline(u, id, r)
  \/ \E u \in StepAssigners, id \in RequestIds, d \in Drivers, urgent \in BOOLEAN :
       Quiet /\ startAssign(u, id, d, urgent)
  \/ RunSteps

SpecSerial == InitSteps /\ [][NextSerial]_vars

\* Two requests have been submitted and answered, the first within town and
\* the second within or out of town; nothing else has happened.
InitPair ==
  /\ \E d \in Destinations \ {""} :
       db = <<NewRequest("staff", "within_town", 1), NewRequest("staff", d, 2)>>
  /\ logs = <<ActivityLog("staff", "Staff", "created_vehicle_request", 1),
              ActivityLog("staff", "Staff", "created_vehicle_request", 2)>>
  /\ now = 3
  /\ last = [op |-> "none", user |-> NoUser, id |-> 0, code |-> 0, pre |-> NoDoc,
             logsBefore |-> 0, reason |-> ""]
  /\ handlers = [s \in Slots |-> Idle]
  /\ inactive = {}
  /\ relieving = <<>>
  /\ facilities = <<>>

\* The handlers of approve, decline and assign, interleaved at their awaits,
\* on either of the stored requests.
NextPair ==
  \/ \E u \in StepApprovers, id \in DOMAIN db, c \in Comments : startApprove(u, id, c)
  \/ \E u \in StepDecliners, id \in DOMAIN db, r \in StepReasons : startDecline(u, id, r)
  \/ \E u \in StepAssigners, id \in DOMAIN db, d \in Drivers, urgent \in BOOLEAN :
       startAssign(u, id, d, urgent)
  \/ RunSteps

SpecPair == InitPair /\ [][NextPair]_vars

(* --------------------------- users and protect ------------------------- *)

\* The users an administrator deactivates or updates.
Targets == {"staff", "sup", "vo"}

AdminIds == DOMAIN Admins

\* routes/user.routes.js: the roles that may update and deactivate users.
AdminRoles == {"ICT Admin"}

\* protect that looks at the token only, not at isActive.
protectTokenOnly(u) == TRUE

\* middleware/auth.js protect, for a valid token of an existing user: whether
\* the request goes on (req.user.isActive).
protect(u) == u \notin inactive

\* router.use(protect) before a route's own guard and handler: 401 for a user
\* who is not active.
protected(op, u, id, handler) ==
  IF protect(u) THEN handler ELSE Reject(op, u, id, 401)

\* What a user command stores: isActive of the target and a log entry.
storeUser(op, a, target, isActive, action) ==
  /\ now < MaxTime
  /\ inactive' = IF isActive THEN inactive \ {target} ELSE inactive \cup {target}
  /\ logs' = Append(logs, ActivityLog(a, AllUsers[a].role, action, target))
  /\ now' = now + 1
  /\ last' = Response(op, a, 0, 200)
  /\ UNCHANGED <<db, handlers, relieving, facilities>>

\* PUT /api/users/:id/deactivate
deactivateUser(a, target) ==
  protected("deactivate", a, 0,
    IF ~authorize(AdminRoles, a) THEN Reject("deactivate", a, 0, 403)
    ELSE IF target \notin DOMAIN AllUsers THEN Reject("deactivate", a, 0, 404)
    ELSE storeUser("deactivate", a, target, FALSE, "deactivated_staff"))

\* PUT /api/users/:id with isActive in the body.
updateUser(a, target, isActive) ==
  protected("update", a, 0,
    IF ~authorize(AdminRoles, a) THEN Reject("update", a, 0, 403)
    ELSE IF target \notin DOMAIN AllUsers THEN Reject("update", a, 0, 404)
    ELSE storeUser("update", a, target, isActive, "edited_staff"))

\* GET /api/vehicle-requests: the listing stores nothing.
listVehicleRequests(u) ==
  protected("list", u, 0,
    /\ last' = [Response("list", u, 0, 200) EXCEPT !.logsBefore = Len(logs)]
    /\ UNCHANGED <<db, logs, now, handlers, inactive, relieving, facilities>>)

\* The vehicle-request commands behind protect, and the administrator's
\* commands.
NextUsers ==
  \/ \E u \in Requesters, d \in StepDestinations :
       protected("create", u, 0, createVehicleRequest(u, d))
  \/ \E u \in StepApprovers, id \in RequestIds, c \in Comments :
       protected("approve", u, id, approveVehicleRequest(u, id, c))
  \/ \E u \in StepDecliners, id \in RequestIds, r \in StepReasons :
       protected("decline", u, id, declineVehicleRequest(u, id, r))
  \/ \E u \in StepAssigners, id \in RequestIds, d \in Drivers :
       protected("assign", u, id, assignVehicle(u, id, d, FALSE))
  \/ \E u \in Targets : listVehicleRequests(u)
  \/ \E a \in AdminIds, target \in Targets : deactivateUser(a, target)
  \/ \E a \in AdminIds, target \in Targets : updateUser(a, target, TRUE)

SpecUsers == Init /\ [][NextUsers]_vars

(* ------------------------- the relieving officer ----------------------- *)

\* The number of approval entries at which a relieving officer is active.
ApprovalsToActivate == 2

RequestReliefRoles == {"Regional Coordinator", "Supervisor"}
DecideReliefRoles == {"ICT Admin", "Vehicle Officer"}

\* The users who ask for a relieving officer, the officers they name, the
\* users who decide, and the users decided about ("ghost" is the id of no user).
ReliefRequesters == {"rc", "staff"}
Officers == {"staff", "ghost"}
ReliefDeciders == {"admin", "vo", "sup"}
ReliefTargets == {"rc", "sup", "ghost"}

\* User.findById(id)
findUser(id) == id \in DOMAIN AllUsers

\* The response of a user route: id is req.params.id, the id of a user.
UserResponse(op, a, target, code) ==
  [op |-> op, user |-> a, id |-> target, code |-> code, pre |-> NoDoc,
   logsBefore |-> Len(logs), reason |-> ""]

\* A user route that ends in an error response: nothing is stored.
RejectUser(op, a, target, code) ==
  /\ last' = UserResponse(op, a, target, code)
  /\ UNCHANGED <<db, logs, now, handlers, inactive, relieving, facilities>>

\* await user.save(), createLog and the response of a relieving-officer
\* handler: the user's relievingOfficer is stored as the handler has set it.
storeRelief(op, a, target, relief, action) ==
  /\ now < MaxTime
  /\ relieving' = [relieving EXCEPT ![target] = relief]
  /\ logs' = Append(logs, ActivityLog(a, AllUsers[a].role, action, target))
  /\ now' = now + 1
  /\ last' = UserResponse(op, a, target, 200)
  /\ UNCHANGED <<db, handlers, inactive, facilities>>

\* req.user.relievingOfficer = { officer, startDate, endDate, status }: the
\* nested path is set as a whole, the paths the object does not name are unset.
requestRelief(officer) ==
  [officer |-> officer, status |-> "pending", approvedBy |-> <<>>, declinedBy |-> NoUser]

\* POST /api/users/relieving-officer; the save of the user fails when ok is
\* FALSE.
requestRelievingOfficer(u, officer, ok) ==
  protected("requestRelief", u, 0,
    IF ~authorize(RequestReliefRoles, u) THEN RejectUser("requestRelief", u, u, 403)
    ELSE IF ~findUser(officer) THEN RejectUser("requestRelief", u, u, 404)
    ELSE IF ~ok THEN RejectUser("requestRelief", u, u, 500)
    ELSE storeRelief("requestRelief", u, u, requestRelief(officer),
                     "assigned_relieving_officer"))

\* approveRelief that makes the officer active at the first approval.
approveReliefAtOnce(relief, a, t) ==
  [relief EXCEPT
     !.approvedBy = Append(@, [user |-> a, role |-> AllUsers[a].role, approvedAt |-> t]),
     !.status = "active"]

\* What approveRelievingOfficer sets before it saves: the approval is pushed,
\* the status is 'approved', or 'active' from the second entry on.
approveRelief(relief, a, t) ==
  LET approvedBy ==
        Append(relief.approvedBy, [user |-> a, role |-> AllUsers[a].role, approvedAt |-> t])
  IN [relief EXCEPT
        !.approvedBy = approvedBy,
        !.status = IF Len(approvedBy) >= ApprovalsToActivate THEN "active" ELSE "approved"]

\* PUT /api/users/:id/relieving-officer/approve
approveRelievingOfficer(a, target, ok) ==
  protected("approveRelief", a, 0,
    IF ~authorize(DecideReliefRoles, a) THEN RejectUser("approveRelief", a, target, 403)
    ELSE IF ~findUser(target) \/ relieving[target].officer = NoUser
    THEN RejectUser("approveRelief", a, target, 404)
    ELSE IF ~ok THEN RejectUser("approveRelief", a, target, 500)
    ELSE storeRelief("approveRelief", a, target, approveRelief(relieving[target], a, now),
                     "approved_relieving_officer"))

\* What declineRelievingOfficer sets before it saves.
declineRelief(relief, a, t, reason) ==
  [relief EXCEPT
     !.status = "declined",
     !.declinedBy = [user |-> a, reason |-> reason, declinedAt |-> t]]

\* PUT /api/users/:id/relieving-officer/decline
declineRelievingOfficer(a, target, reason, ok) ==
  protected("declineRelief", a, 0,
    IF ~authorize(DecideReliefRoles, a) THEN RejectUser("declineRelief", a, target, 403)
    ELSE IF ~findUser(target) \/ relieving[target].officer = NoUser
    THEN RejectUser("declineRelief", a, target, 404)
    ELSE IF ~ok THEN RejectUser("declineRelief", a, target, 500)
    ELSE storeRelief("declineRelief", a, target,
                     declineRelief(relieving[target], a, now, reason),
                     "declined_relieving_officer"))

NextRelief ==
  \/ \E u \in ReliefRequesters, officer \in Officers, ok \in BOOLEAN :
       requestRelievingOfficer(u, officer, ok)
  \/ \E a \in ReliefDeciders, target \in ReliefTargets, ok \in BOOLEAN :
       approveRelievingOfficer(a, target, ok)
  \/ \E a \in ReliefDeciders, target \in ReliefTargets, ok \in BOOLEAN :
       declineRelievingOfficer(a, target, "", ok)

\* The database as in Init, and no user has asked for a relieving officer.
InitRelief ==
  /\ db = <<>>
  /\ logs = <<>>
  /\ now = 1
  /\ last = [op |-> "none", user |-> NoUser, id |-> 0, code |-> 0, pre |-> NoDoc,
             logsBefore |-> 0, reason |-> ""]
  /\ handlers = <<>>
  /\ inactive = {}
  /\ relieving = [u \in DOMAIN AllUsers |-> NoRelief]
  /\ facilities = <<>>

SpecRelief == InitRelief /\ [][NextRelief]_vars

(* ------------------------------ facilities ----------------------------- *)

WriteFacilityRoles == {"ROM Supervisor", "ICT Admin"}
DeleteFacilityRoles == {"ICT Admin"}

\* The users who create, update and delete facilities, the names they send
\* ("" is a body without the field) and the ids they name: the stored ones
\* and one more.
FacilityCreators == {"rom"}
FacilityActors == {"rom", "admin", "staff"}
FacilityDeleters == {"admin", "rom"}
FacilityNames == {"", "depot"}
FacilityIds == 1..(MaxFacilities + 1)

\* Facility.findById(id)
findFacility(id) == IF id \in DOMAIN facilities THEN facilities[id] ELSE NoFacility

\* The response of a facility route.
FacilityResponse(op, u, id, code) ==
  [op |-> op, user |-> u, id |-> id, code |-> code, pre |-> findFacility(id),
   logsBefore |-> Len(logs), reason |-> ""]

\* A facility route that ends in an error response: nothing is stored.
RejectFacility(op, u, id, code) ==
  /\ last' = FacilityResponse(op, u, id, code)
  /\ UNCHANGED <<db, logs, now, handlers, inactive, relieving, facilities>>

\* The stored collection changes, the log entry is written, 200 or 201 is
\* answered.
storeFacilities(op, u, id, code, stored, action) ==
  /\ now < MaxTime
  /\ facilities' = stored
  /\ logs' = Append(logs, ActivityLog(u, AllUsers[u].role, action, id))
  /\ now' = now + 1
  /\ last' = FacilityResponse(op, u, id, code)
  /\ UNCHANGED <<db, handlers, inactive, relieving>>

\* Facility.create({...}): no modification yet.
NewFacility(u, name) ==
  [name |-> name, createdBy |-> u, lastModifiedBy |-> NoUser, modifications |-> <<>>]

\* POST /api/facilities; name is required.
createFacility(u, name) ==
  protected("createFacility", u, 0,
    IF ~authorize(WriteFacilityRoles, u) THEN RejectFacility("createFacility", u, 0, 403)
    ELSE IF name = "" THEN RejectFacility("createFacility", u, 0, 500)
    ELSE /\ Len(facilities) < MaxFacilities
         /\ storeFacilities("createFacility", u, Len(facilities) + 1, 201,
                            Append(facilities, NewFacility(u, name)),
                            "uploaded_general_file"))

\* The fields of the body that updateFacility copies; modifications and
\* lastModifiedBy are not among them.
allowedUpdates(facility, body) ==
  [facility EXCEPT !.name = IF body.name # "" THEN body.name ELSE @]

\* addModification that keeps the latest entry only.
addModificationLatestOnly(facility, userId, changes, t) ==
  [facility EXCEPT
     !.modifications = <<[modifiedBy |-> userId, modifiedAt |-> t, changes |-> changes]>>,
     !.lastModifiedBy = userId]

\* facilitySchema.methods.addModification
addModification(facility, userId, changes, t) ==
  [facility EXCEPT
     !.modifications =
        Append(@, [modifiedBy |-> userId, modifiedAt |-> t, changes |-> changes]),
     !.lastModifiedBy = userId]

\* PUT /api/facilities/:id; the save fails when ok is FALSE (a validation or
\* database error).
updateFacility(u, id, body, ok) ==
  protected("updateFacility", u, 0,
    IF ~authorize(WriteFacilityRoles, u) THEN RejectFacility("updateFacility", u, id, 403)
    ELSE IF findFacility(id) = NoFacility THEN RejectFacility("updateFacility", u, id, 404)
    ELSE IF ~ok THEN RejectFacility("updateFacility", u, id, 500)
    ELSE storeFacilities("updateFacility", u, id, 200,
           [facilities EXCEPT ![id] =
              addModification(allowedUpdates(@, body), u,
                              [oldData |-> facilities[id].name, newData |-> body], now)],
           "edited_facility"))

\* DELETE /api/facilities/:id
deleteFacility(u, id) ==
  protected("deleteFacility", u, 0,
    IF ~authorize(DeleteFacilityRoles, u) THEN RejectFacility("deleteFacility", u, id, 403)
    ELSE IF findFacility(id) = NoFacility THEN RejectFacility("deleteFacility", u, id, 404)
    ELSE storeFacilities("deleteFacility", u, id, 200,
                         [facilities EXCEPT ![id] = NoFacility], "deleted_facility"))

NextFacility ==
  \/ \E u \in FacilityCreators, name \in FacilityNames : createFacility(u, name)
  \/ \E u \in FacilityActors, id \in FacilityIds, name \in FacilityNames, ok \in BOOLEAN :
       updateFacility(u, id, [name |-> name, modifications |-> <<>>], ok)
  \/ \E u \in FacilityDeleters, id \in FacilityIds : deleteFacility(u, id)

SpecFacility == Init /\ [][NextFacility]_vars

(* ------------------------------ properties ----------------------------- *)

\* The document the last command was about, as it is stored now.
Post == db[last.id]

\* The last command found its document.
Found == last.pre # NoDoc

Terminal(request) == request.overallStatus \in {"declined", "dispatched"}

Approved(request, stage) == request.approvals[fieldOf(stage)].status = "approved"

\* The roles the approve handler accepts at each stage.
StageRoles(stage) ==
  CASE stage = "supervisor"           -> {"Supervisor", "ROM Supervisor"}
    [] stage = "corporate"            -> {"Corporate Services"}
    [] stage = "regional_coordinator" -> {"Regional Coordinator"}
    [] stage = "vehicle_officer"      -> {"Vehicle Officer"}

C2_StatusEdges ==
  (Found /\ Post.overallStatus # last.pre.overallStatus)
    => <<last.pre.overallStatus, Post.overallStatus>> \in
         { <<"pending", "approved">>, <<"approved", "dispatched">>,
           <<"pending", "declined">>, <<"approved", "declined">> }

\* C3: an approve of a declined or dispatched request is refused and changes
\* nothing of the request.
C3_ApproveOfTerminalRefused ==
  (last.op = "approve" /\ Found /\ Terminal(last.pre))
    => (last.code # 200 /\ Post = last.pre)

\* C4: a decline of a declined or dispatched request is refused and leaves
\* overallStatus and the decline record as they were.
C4_DeclineOfTerminalRefused ==
  (last.op = "decline" /\ Found /\ Terminal(last.pre))
    => /\ last.code # 200
       /\ Post.overallStatus = last.pre.overallStatus
       /\ Post.declinedBy = last.pre.declinedBy

\* C5: an assign of a dispatched or declined request is refused and leaves the
\* assignment record and overallStatus as they were, also when every stage is
\* approved.
C5_AssignOfTerminalRefused ==
  (last.op = "assign" /\ Found /\ Terminal(last.pre))
    => /\ last.code # 200
       /\ Post.vehicleAssignment = last.pre.vehicleAssignment
       /\ Post.overallStatus = last.pre.overallStatus

\* C6: stages are approved strictly in the order of the sequence: a later
\* stage's record is never approved while an earlier one is not, and an approve
\* by an actor whose role is authorized for a later stage but not for the
\* current one is refused (403) and changes nothing.
C6_StrictlySequential ==
  /\ \A id \in DOMAIN db :
       LET seq == stagesFor(db[id].approvalFlow)
       IN \A j, k \in 1..Len(seq) :
            (j < k /\ Approved(db[id], seq[k])) => Approved(db[id], seq[j])
  /\ (/\ last.op = "approve" /\ Found
      /\ LET seq == stagesFor(last.pre.approvalFlow)
         IN \E j, k \in 1..Len(seq) :
              /\ j < k
              /\ last.pre.currentApprovalStage = seq[j]
              /\ userRole(last.user) \in StageRoles(seq[k])
              /\ userRole(last.user) \notin StageRoles(seq[j]))
     => (last.code = 403 /\ Post = last.pre /\ Len(logs) = last.logsBefore)

\* The vehicle officer tried to approve an out-of-town request that waits for
\* Corporate Services.
C6_Witness ==
  /\ last.op = "approve" /\ Found /\ last.code = 403
  /\ last.pre.approvalFlow = "out_of_town"
  /\ last.pre.currentApprovalStage = "corporate"
  /\ userRole(last.user) = "Vehicle Officer"

\* C7: an assign that reaches the handler succeeds exactly when every stage of
\* the request's sequence is approved; with a stage still not approved it is
\* refused (400), stores nothing (no assignment record, overallStatus and
\* notifications as before) and logs nothing.
C7_AssignIffAllApproved ==
  (last.op = "assign" /\ Found /\ authorize(AssignRoles, last.user))
    => LET seq == stagesFor(last.pre.approvalFlow)
           all == \A i \in 1..Len(seq) : Approved(last.pre, seq[i])
       IN /\ (last.code = 200) <=> all
          /\ ~all => /\ last.code = 400
                     /\ Post = last.pre
                     /\ Len(logs) = last.logsBefore

\* The vehicle officer tried to assign a within-town request whose last stage
\* is still pending.
C7_Witness ==
  /\ last.op = "assign" /\ Found /\ last.code = 400
  /\ last.pre.approvalFlow = "within_town"
  /\ Approved(last.pre, "supervisor")
  /\ ~Approved(last.pre, "vehicle_officer")

C9_RolesInOrder(approvalFlow) ==
  IF approvalFlow = "within_town"
  THEN << <<"supervisor", {"Supervisor", "ROM Supervisor"}>>,
          <<"vehicleOfficer", {"Vehicle Officer"}>> >>
  ELSE << <<"supervisor", {"Supervisor", "ROM Supervisor"}>>,
          <<"corporate", {"Corporate Services"}>>,
          <<"regionalCoordinator", {"Regional Coordinator"}>>,
          <<"vehicleOfficer", {"Vehicle Officer"}>> >>

C9_NumApproved(request) ==
  Cardinality({f \in ApprovalFields : request.approvals[f].status = "approved"})

C10_AssignNotifies ==
  (last.op = "assign" /\ last.code = 200)
    => /\ Post.overallStatus = "dispatched"
       /\ Post.vehicleAssignment # NoAssignment
       /\ Len(Post.notifications) =
            Len(last.pre.notifications)
              + (IF Post.vehicleAssignment.urgentDispatch THEN 2 ELSE 1)

Done(s) == handlers[s].pc = "done"

\* C12: of two approves of the same request that loaded the same stored
\* document and both went on to save, exactly one succeeds; the other is
\* refused and none of its effects is applied. Here: two such approves that
\* have both answered, with no save of either failing, have not both answered
\* 200.
C12_OneOfTwoApprovesWins ==
  \A s, t \in Slots :
    (/\ s # t /\ Done(s) /\ Done(t)
     /\ handlers[s].op = "approve" /\ handlers[t].op = "approve"
     /\ handlers[s].id = handlers[t].id
     /\ handlers[s].base # NoDoc /\ handlers[s].base = handlers[t].base
     /\ ~handlers[s].saveFailed /\ ~handlers[t].saveFailed)
    => ~(handlers[s].code = 200 /\ handlers[t].code = 200)

\* C13: a transition computed from a document older than the stored one is
\* never persisted: no handler's save writes while the stored document differs
\* from the one the handler loaded or last saved.
C13_NoStaleWrite ==
  \A s \in Slots : ~handlers[s].stale

\* C14: a stored request never holds the state change of an approve, a decline
\* or an assign without that transition's notification, nor the notification
\* without the state change.
C14_NotificationWithChange ==
  \A id \in DOMAIN db :
    LET request == db[id]
        notified(type) ==
          \E i \in 1..Len(request.notifications) : request.notifications[i].type = type
    IN /\ (\E f \in ApprovalFields : request.approvals[f].status = "approved")
            <=> notified("approved")
       /\ (request.declinedBy # NoDecline) <=> notified("declined")
       /\ (request.vehicleAssignment # NoAssignment) <=> notified("dispatched")

\* C15: when approve, decline or assign answers with a failure, also after a
\* save that failed, the handler has stored nothing of the request.
C15_FailureStoresNothing ==
  \A s \in Slots :
    (Done(s) /\ handlers[s].op \in {"approve", "decline", "assign"}
       /\ handlers[s].code # 200)
    => handlers[s].saves = 0

\* C16: a decline that reaches the handler with an empty or missing reason is
\* refused (400), leaves the request as it was and logs nothing; with a reason,
\* on a request that is neither declined nor dispatched, it sets overallStatus
\* to declined and records the actor, the actor's role, the reason and the time.
C16_DeclineNeedsReason ==
  /\ (last.op = "decline" /\ authorize(DeclineRoles, last.user) /\ last.reason = "")
     => /\ last.code = 400
        /\ Found => Post = last.pre
        /\ Len(logs) = last.logsBefore
  /\ (/\ last.op = "decline" /\ authorize(DeclineRoles, last.user)
      /\ last.reason # "" /\ Found /\ ~Terminal(last.pre))
     => /\ last.code = 200
        /\ Post.overallStatus = "declined"
        /\ Post.declinedBy = [user |-> last.user, role |-> userRole(last.user),
                              reason |-> last.reason, declinedAt |-> now - 1]
        /\ Len(logs) = last.logsBefore + 1

\* A supervisor tried to decline a stored, pending request without a reason.
C16_Witness ==
  /\ last.op = "decline" /\ last.code = 400 /\ last.reason = ""
  /\ Found /\ last.pre.overallStatus = "pending"
  /\ userRole(last.user) = "Supervisor"
  /\ Post = last.pre

\* The clock the last command read.
CommandTime == IF last.code \in {200, 201} THEN now - 1 ELSE now

\* The role a user holds at time t when the delegation window counts: the
\* acting role from startDate to endDate, the assigned role before and after.
C18_RoleInWindow(u, t) ==
  IF /\ Users[u].isActingAs # ""
     /\ Users[u].startDate <= t
     /\ t <= Users[u].endDate
  THEN Users[u].isActingAs
  ELSE Users[u].role

\* C18: the role every authorization check uses is the acting role exactly
\* while the clock lies within the delegation's startDate..endDate, and the
\* assigned role otherwise: an approve succeeds only for a user whose role at
\* that time is let through by the route and belongs to the current stage.
C18_RoleFollowsWindow ==
  (last.op = "approve" /\ last.code = 200)
    => /\ C18_RoleInWindow(last.user, CommandTime) \in ApproveRoles
       /\ C18_RoleInWindow(last.user, CommandTime)
            \in StageRoles(last.pre.currentApprovalStage)

\* The roles whose listing query carries no role-based condition.
C19_Unrestricted == {"Approver", "Viewer", "ICT Admin"}

\* C19: the listing returns to an actor exactly the requests the actor
\* submitted and the requests whose current stage is a stage of the actor's
\* role, or every request when the role's visibility is unrestricted.
C19_ListingByStage ==
  \A u \in UserIds :
    getVehicleRequests(u) =
      IF userRole(u) \in C19_Unrestricted
      THEN DOMAIN db
      ELSE {id \in DOMAIN db :
              \/ db[id].requestingOfficer = u
              \/ /\ db[id].currentApprovalStage # Completed
                 /\ userRole(u) \in StageRoles(db[id].currentApprovalStage)}

\* C20: in every stored request that is neither declined nor dispatched,
\* overallStatus is 'approved' exactly when every stage of the request's
\* sequence is approved; and 'approved' is not an end: an assign, and a decline
\* with a reason, of an 'approved' request are accepted.
C20_ApprovedIffAllStages ==
  /\ \A id \in DOMAIN db :
       ~Terminal(db[id]) =>
         LET seq == stagesFor(db[id].approvalFlow)
         IN (db[id].overallStatus = "approved")
              <=> (\A i \in 1..Len(seq) : Approved(db[id], seq[i]))
  /\ (/\ last.op = "assign" /\ authorize(AssignRoles, last.user)
      /\ Found /\ last.pre.overallStatus = "approved")
     => (last.code = 200 /\ Post.overallStatus = "dispatched")
  /\ (/\ last.op = "decline" /\ authorize(DeclineRoles, last.user)
      /\ last.reason # "" /\ Found /\ last.pre.overallStatus = "approved")
     => (last.code = 200 /\ Post.overallStatus = "declined")

\* A within-town request that two approvals had made 'approved' was declined.
C20_Witness ==
  /\ last.op = "decline" /\ last.code = 200
  /\ last.pre.overallStatus = "approved"
  /\ last.pre.approvalFlow = "within_town"
  /\ Approved(last.pre, "supervisor") /\ Approved(last.pre, "vehicle_officer")
  /\ Post.overallStatus = "declined"

\* The saves a handler makes when nothing fails.
C17_Saves(op) == IF op \in {"approve", "decline"} THEN 2 ELSE 1

\* C17: a failure of the activity logger during submit, approve, decline or
\* assign does not end the handler: nothing is answered at that point, approve
\* and decline go on to the save of their notification, and when no save fails
\* the handler makes every save and answers as it does when the entry is
\* stored (201 for submit, 200 otherwise).
C17_LogFailureIsolated ==
  \A s \in Slots :
    LET h == handlers[s]
    IN h.logFailed =>
         /\ ~Done(s) => /\ h.pc = "notify"
                        /\ Len(h.request.notifications) = Len(h.synced.notifications) + 1
         /\ (Done(s) /\ ~h.saveFailed) =>
              /\ h.code = (IF h.op = "create" THEN 201 ELSE 200)
              /\ h.saves = C17_Saves(h.op)

\* An assign whose log entry could not be stored has dispatched the request
\* and answered 200.
C17_Witness ==
  \E s \in Slots :
    /\ Done(s) /\ handlers[s].op = "assign" /\ handlers[s].logFailed
    /\ handlers[s].code = 200
    /\ db[handlers[s].id].overallStatus = "dispatched"

\* C21: a request that has just been submitted is pending at its first stage:
\* overallStatus is pending, every approval record of its sequence is pending
\* with no approver, currentApprovalStage is the first stage of the sequence of
\* its routing attribute, and it has no decline record, no assignment record
\* and no notification.
C21_NewRequestPendingAtFirstStage ==
  (last.op = "create" /\ last.code = 201)
    => LET seq == stagesFor(Post.approvalFlow)
       IN /\ Post.requestingOfficer = last.user
          /\ Post.overallStatus = "pending"
          /\ \A i \in 1..Len(seq) :
               /\ Post.approvals[fieldOf(seq[i])].status = "pending"
               /\ Post.approvals[fieldOf(seq[i])].approvedBy = NoUser
          /\ Post.currentApprovalStage = seq[1]
          /\ Post.declinedBy = NoDecline
          /\ Post.vehicleAssignment = NoAssignment
          /\ Post.notifications = <<>>

\* An out-of-town request has just been submitted.
C21_Witness ==
  /\ last.op = "create" /\ last.code = 201
  /\ last.id \in DOMAIN db
  /\ Post.approvalFlow = "out_of_town"
  /\ Len(stagesFor(Post.approvalFlow)) = 4
  /\ Post.currentApprovalStage = "supervisor"

\* C22: a successful decline leaves currentApprovalStage and every approval
\* record as they were; of the request it changes only overallStatus, the
\* decline record and the notifications.
C22_DeclineFrame ==
  (last.op = "decline" /\ last.code = 200)
    => /\ Post.currentApprovalStage = last.pre.currentApprovalStage
       /\ Post.approvals = last.pre.approvals
       /\ Post = [last.pre EXCEPT !.overallStatus = Post.overallStatus,
                                  !.declinedBy = Post.declinedBy,
                                  !.notifications = Post.notifications]

\* A request that waited for the vehicle officer, its first stage approved,
\* has been declined.
C22_Witness ==
  /\ last.op = "decline" /\ last.code = 200
  /\ last.pre.currentApprovalStage = "vehicle_officer"
  /\ Approved(last.pre, "supervisor")
  /\ Post.overallStatus = "declined"
  /\ Post.currentApprovalStage = "vehicle_officer"

\* What a successful approve or decline emits: one log entry of the action and
\* one notification of the type, to the requesting officer.
C23_EmitsOne(action, type) ==
  /\ Len(logs) = last.logsBefore + 1
  /\ logs[Len(logs)].action = action
  /\ logs[Len(logs)].user = last.user
  /\ logs[Len(logs)].resourceId = last.id
  /\ Len(Post.notifications) = Len(last.pre.notifications) + 1
  /\ Post.notifications[Len(Post.notifications)].type = type
  /\ Post.notifications[Len(Post.notifications)].recipient = last.pre.requestingOfficer

C24_IdentityAndRoutingFixed ==
  /\ Found =>
       /\ last.id \in DOMAIN db
       /\ Post.requestingOfficer = last.pre.requestingOfficer
       /\ Post.approvalFlow = last.pre.approvalFlow
       /\ Post.createdAt = last.pre.createdAt
       /\ stagesFor(Post.approvalFlow) = stagesFor(last.pre.approvalFlow)
  /\ \A id \in DOMAIN db :
       /\ db[id].requestingOfficer \in Requesters
       /\ db[id].approvalFlow \in Destinations \ {""}

\* An out-of-town request has been approved at its third stage and is still
\* the requester's and still out of town.
C24_Witness ==
  /\ last.op = "approve" /\ last.code = 200
  /\ last.pre.currentApprovalStage = "regional_coordinator"
  /\ last.pre.approvalFlow = "out_of_town"
  /\ Post.approvalFlow = "out_of_town"
  /\ Post.requestingOfficer = "staff"

\* C25: the notifications of a request are append-only: across every command
\* the sequence before it is a prefix of the sequence after it.
C25_NotificationsAppendOnly ==
  Found =>
    /\ Len(last.pre.notifications) <= Len(Post.notifications)
    /\ SubSeq(Post.notifications, 1, Len(last.pre.notifications)) = last.pre.notifications

\* A decline has appended its notification after the notification of an
\* earlier approve.
C25_Witness ==
  /\ last.op = "decline" /\ last.code = 200
  /\ Len(last.pre.notifications) = 1
  /\ last.pre.notifications[1].type = "approved"
  /\ Len(Post.notifications) = 2
  /\ Post.notifications[1] = last.pre.notifications[1]
  /\ Post.notifications[2].type = "declined"

\* C26: commands on different requests are independent: in every step of every
\* interleaving, a stored request changes only in a save of a handler that
\* was started for that very id, no other request changes in that step, and a
\* handler that starts loads the stored document of its own id alone.
C26_RequestsIndependent ==
  [][/\ \A id \in DOMAIN db :
          db'[id] # db[id] =>
            /\ \E s \in Slots :
                 /\ handlers[s].id = id
                 /\ handlers[s].pc \in {"save", "notify"}
                 /\ handlers'[s] # handlers[s]
                 /\ db'[id] = save(handlers[s].request, handlers[s].synced, db[id])
            /\ \A other \in DOMAIN db \ {id} : db'[other] = db[other]
     /\ \A s \in Slots :
          (handlers'[s].base # handlers[s].base /\ handlers'[s].base # NoDoc)
            => /\ handlers'[s].base = db[handlers'[s].id]
               /\ handlers'[s].synced = db[handlers'[s].id]
    ]_vars

\* While an approve of the first request waits for its second save, a decline
\* of the second request, started after it, has been stored and answered.
C26_Witness ==
  /\ handlers[1].op = "approve" /\ handlers[1].id = 1 /\ handlers[1].pc = "notify"
  /\ handlers[2].op = "decline" /\ handlers[2].id = 2
  /\ handlers[2].pc = "done" /\ handlers[2].code = 200
  /\ db[2].overallStatus = "declined"
  /\ db[1].overallStatus = "pending"
  /\ db[1].declinedBy = NoDecline

\* C27: in every stored request the decline record is set exactly when
\* overallStatus is 'declined' and the assignment record exactly when it is
\* 'dispatched'; no request has both records.
C27_RecordsMatchStatus ==
  \A id \in DOMAIN db :
    /\ (db[id].declinedBy # NoDecline) <=> (db[id].overallStatus = "declined")
    /\ (db[id].vehicleAssignment # NoAssignment) <=> (db[id].overallStatus = "dispatched")
    /\ ~(db[id].declinedBy # NoDecline /\ db[id].vehicleAssignment # NoAssignment)

\* C28: only an actor whose role is Vehicle Officer can dispatch: an assign by
\* any other role is refused by the route guard (403) before the request is
\* looked up, stores nothing and logs nothing, so every assign that succeeds
\* is a Vehicle Officer's.
C28_OnlyVehicleOfficerAssigns ==
  /\ (last.op = "assign" /\ userRole(last.user) # "Vehicle Officer")
       => /\ last.code = 403
          /\ Found => Post = last.pre
          /\ Len(logs) = last.logsBefore
  /\ (last.op = "assign" /\ last.code = 200)
       => userRole(last.user) = "Vehicle Officer"
  /\ (Found /\ Post.overallStatus = "dispatched" /\ last.pre.overallStatus # "dispatched")
       => (last.op = "assign" /\ userRole(last.user) = "Vehicle Officer")

\* A supervisor tried to assign a fully approved request.
C28_Witness ==
  /\ last.op = "assign" /\ last.code = 403
  /\ userRole(last.user) = "Supervisor"
  /\ Found /\ last.pre.overallStatus = "approved"
  /\ Post.overallStatus = "approved"

\* The five roles the claim allows to decline.
C29_Decliners ==
  {"Supervisor", "ROM Supervisor", "Corporate Services",
   "Regional Coordinator", "Vehicle Officer"}

\* C29: a request can be declined only by an actor whose role is Supervisor,
\* ROM Supervisor, Corporate Services, Regional Coordinator or Vehicle
\* Officer; such an actor's decline (with a reason, of a stored request that is
\* neither declined nor dispatched) is accepted whether or not the role is the
\* one of the current stage; an actor of any other role is refused (403) and
\* changes nothing.
C29_WhoMayDecline ==
  /\ (last.op = "decline" /\ userRole(last.user) \notin C29_Decliners)
       => /\ last.code = 403
          /\ Found => Post = last.pre
          /\ Len(logs) = last.logsBefore
  /\ (last.op = "decline" /\ last.code = 200)
       => userRole(last.user) \in C29_Decliners
  /\ (/\ last.op = "decline" /\ userRole(last.user) \in C29_Decliners
      /\ last.reason # "" /\ Found /\ ~Terminal(last.pre))
       => (last.code = 200 /\ Post.overallStatus = "declined")
  /\ (Found /\ Post.declinedBy # last.pre.declinedBy)
       => (last.op = "decline" /\ Post.declinedBy.role \in C29_Decliners)

\* The vehicle officer has declined a request that waited for its supervisor.
C29_Witness ==
  /\ last.op = "decline" /\ last.code = 200
  /\ userRole(last.user) = "Vehicle Officer"
  /\ last.pre.currentApprovalStage = "supervisor"
  /\ userRole(last.user) \notin StageRoles(last.pre.currentApprovalStage)
  /\ Post.overallStatus = "declined"

\* C30: a command (submit, approve, decline, assign, listing) of a user who is
\* deactivated when it arrives is refused by protect (401) before any other
\* guard or handler: it stores nothing of any request and logs nothing; and
\* protect refuses nobody else.
C30_DeactivatedUserRefused ==
  /\ (last.op \in {"create", "approve", "decline", "assign", "list"}
        /\ last.user \in inactive)
       => /\ last.code = 401
          /\ Found => Post = last.pre
          /\ Len(logs) = last.logsBefore
  /\ (last.op \in {"create", "approve", "decline", "assign", "list"}
        /\ last.code = 401)
       => last.user \in inactive
  /\ \A i \in 1..Len(logs) :
       logs[i].action \in {"deactivated_staff", "edited_staff"}
         => logs[i].user \in AdminIds

\* A supervisor who has been deactivated tried to approve a request that
\* waits at the supervisor stage.
C30_Witness ==
  /\ last.op = "approve" /\ last.user = "sup" /\ last.code = 401
  /\ "sup" \in inactive
  /\ Found /\ last.pre.currentApprovalStage = "supervisor"
  /\ Post = last.pre

\* The log actions of approve, decline and assign.
C31_Actions == {"approved_vehicle_request", "declined_vehicle_request", "dispatched_vehicle"}

\* C31: the log entry of an approve, decline or assign is written only after
\* the state change is stored. In every step, an entry with one of the three
\* actions is appended by a handler of that command whose save of the state
\* change went through (the stored request is the changed one); and a handler
\* whose save of the state change failed has answered 500 at that point, so
\* it never reaches its log entry.
C31_LogAfterSave ==
  [][/\ \A i \in (Len(logs) + 1)..Len(logs') :
          logs'[i].action \in C31_Actions =>
            \E s \in Slots :
              LET h == handlers[s]
              IN /\ h.pc = "log" /\ handlers'[s] # h
                 /\ h.op \in {"approve", "decline", "assign"}
                 /\ logs'[i] = ActivityLog(h.user, logRole(h), logAction(h), h.id)
                 /\ h.saves >= 1 /\ ~h.saveFailed
                 /\ db[h.id] = h.request /\ h.request # h.base
     /\ \A s \in Slots :
          (handlers'[s].saveFailed /\ handlers'[s].saves = 0)
            => /\ handlers'[s].pc = "done" /\ handlers'[s].code = 500
               /\ handlers'[s] # handlers[s] => logs' = logs
    ]_vars

\* The save of a Supervisor's approval failed: the handler answered 500, the
\* stored request is as it was loaded, and no approval is in the log.
C31_Witness ==
  \E s \in Slots :
    /\ Done(s) /\ handlers[s].op = "approve" /\ handlers[s].user = "sup"
    /\ handlers[s].saveFailed /\ handlers[s].saves = 0 /\ handlers[s].code = 500
    /\ handlers[s].base # NoDoc /\ db[handlers[s].id] = handlers[s].base
    /\ \A i \in 1..Len(logs) : logs[i].action # "approved_vehicle_request"

\* The positions in the log of the entries with the action about the user.
C32_Entries(l, action, t) ==
  {i \in 1..Len(l) : l[i].action = action /\ l[i].resourceId = t}

\* The approvals of the user's relieving officer that the log holds after the
\* user's latest request for one.
C32_Since(l, t) ==
  LET asked == C32_Entries(l, "assigned_relieving_officer", t)
  IN Cardinality({i \in C32_Entries(l, "approved_relieving_officer", t) :
                    \A j \in asked : j < i})

\* C32: in every step of the relieving-officer flow: a status is 'active'
\* only with at least two approvals since the user's latest request; an
\* accepted approval appends one entry of the approver to approvedBy and
\* leaves the entries before it, and after the first approval since the
\* request the status is 'approved'; and an approve or decline about a user
\* who has not asked for a relieving officer, or about no user, is answered
\* 403 or 404 and neither stores nor logs anything.
C32_TwoApprovalsActivate ==
  [][/\ \A t \in DOMAIN relieving :
          LET relief == relieving[t]
              after  == relieving'[t]
          IN /\ after.status = "active" => C32_Since(logs', t) >= 2
             /\ (last'.op = "approveRelief" /\ last'.code = 200 /\ last'.id = t)
                  => /\ after.approvedBy =
                          Append(relief.approvedBy,
                                 [user |-> last'.user, role |-> AllUsers[last'.user].role,
                                  approvedAt |-> now])
                     /\ Len(after.approvedBy) = C32_Since(logs', t)
                     /\ C32_Since(logs', t) = 1 => after.status = "approved"
             /\ (Len(after.approvedBy) < Len(relief.approvedBy))
                  => (last'.op = "requestRelief" /\ last'.code = 200 /\ last'.user = t)
             /\ (last'.op \in {"approveRelief", "declineRelief"} /\ last'.id = t
                   /\ relief.officer = NoUser)
                  => /\ last'.code \in {403, 404}
                     /\ relieving' = relieving /\ logs' = logs
     /\ (last'.op \in {"approveRelief", "declineRelief"} /\ ~findUser(last'.id))
          => /\ last'.code \in {403, 404}
             /\ relieving' = relieving /\ logs' = logs
    ]_vars

\* The Regional Coordinator asked again after one approval: the second
\* request needed two approvals of its own before the officer was active.
C32_Witness ==
  /\ last.op = "approveRelief" /\ last.code = 200 /\ last.id = "rc"
  /\ relieving["rc"].status = "active"
  /\ Len(relieving["rc"].approvedBy) = 2
  /\ Cardinality(C32_Entries(logs, "assigned_relieving_officer", "rc")) = 2
  /\ Cardinality(C32_Entries(logs, "approved_relieving_officer", "rc")) = 3

\* The first sequence is the beginning of the second.
C33_Prefix(s, t) == Len(s) <= Len(t) /\ SubSeq(t, 1, Len(s)) = s

\* C33: in every step: an accepted update appends exactly one modification
\* entry of the acting user to the facility it names, keeps the entries
\* before it and makes that user lastModifiedBy; the entries of a stored
\* facility change in no other way; an update of a facility that is not
\* stored answers 403 or 404 and neither stores nor logs anything; and a
\* facility leaves the collection only by an accepted delete of it.
C33_HistoryAppendOnly ==
  [][/\ \A id \in DOMAIN facilities :
          LET facility == facilities[id]
              after    == facilities'[id]
          IN /\ id \in DOMAIN facilities'
             /\ (facility # NoFacility /\ after = NoFacility)
                  => (last'.op = "deleteFacility" /\ last'.code = 200 /\ last'.id = id)
             /\ (facility # NoFacility /\ after # NoFacility)
                  => /\ C33_Prefix(facility.modifications, after.modifications)
                     /\ after.modifications # facility.modifications
                          => (last'.op = "updateFacility" /\ last'.code = 200
                                /\ last'.id = id)
             /\ (last'.op = "updateFacility" /\ last'.code = 200 /\ last'.id = id)
                  => /\ facility # NoFacility /\ after # NoFacility
                     /\ Len(after.modifications) = Len(facility.modifications) + 1
                     /\ after.modifications[Len(after.modifications)].modifiedBy = last'.user
                     /\ after.modifications[Len(after.modifications)].modifiedAt = now
                     /\ after.lastModifiedBy = last'.user
     /\ (last'.op = "updateFacility" /\ findFacility(last'.id) = NoFacility)
          => /\ last'.code \in {403, 404}
             /\ facilities' = facilities /\ logs' = logs
    ]_vars

\* A facility was updated by the ROM Supervisor and then by the ICT Admin:
\* it holds both entries in that order.
C33_Witness ==
  /\ last.op = "updateFacility" /\ last.code = 200 /\ last.id = 1
  /\ last.user = "admin"
  /\ facilities[1] # NoFacility
  /\ Len(facilities[1].modifications) = 2
  /\ facilities[1].modifications[1].modifiedBy = "rom"
  /\ facilities[1].modifications[2].modifiedBy = "admin"
  /\ facilities[1].lastModifiedBy = "admin"
  /\ last.pre.lastModifiedBy = "rom"

====
